---------------------------- MODULE Spec2Model ----------------------------
(***************************************************************************)
(* Model of ai_medical_imaging.py: the click handler analyze_medical_image *)
(* (lines 58-109), the file temp_medical_image.png it shares between       *)
(* invocations, and the dispatch of the handler by the click event (lines  *)
(* 146-150).                                                               *)
(*                                                                         *)
(* A Python str is a sequence of one-character strings.  An image is one   *)
(* pixel with its colour mode: enough to tell the colour modes, the RGB    *)
(* conversion and two different images apart.                              *)
(*                                                                         *)
(* Three specifications share the handler's steps:                         *)
(*   Spec      one invocation at a time, the path absent at start;         *)
(*   SpecStale one invocation at a time, a file of the fixed name may be   *)
(*             there at start (left by an earlier, killed process);        *)
(*   SpecConc  invocations interleave on the shared path without a lock.   *)
(***************************************************************************)
EXTENDS Integers, Sequences, FiniteSets, TLC

\* ------------------------------------------------------------------ bounds

\* Requests (clicks) dispatched in one behaviour.
MaxRequests == 2

\* Longest run of leading, and of trailing, whitespace of a response.
MaxPad == 1

\* ------------------------------------------------------- program constants

\* Line 98: len(response.content.strip()) < 100
MinLength == 100

\* The handler invocations that may be in progress (threads of the server).
Procs == {1, 2}

\* ---------------------------------------------------------------- strings

\* Line 64.
MsgUpload ==
    <<"P","l","e","a","s","e"," ","u","p","l","o","a","d"," ","a","n"," ","i",
      "m","a","g","e"," ","t","o"," ","b","e","g","i","n"," ","a","n","a","l",
      "y","s","i","s",".">>

\* Line 78.
MsgInvalid ==
    <<"I","n","v","a","l","i","d"," ","i","m","a","g","e"," ","f","o","r","m",
      "a","t">>

\* Line 100.
MsgIncomplete ==
    <<"E","r","r","o","r",":"," ","A","n","a","l","y","s","i","s"," ","s","e",
      "e","m","s"," ","i","n","c","o","m","p","l","e","t","e","."," ","P","l",
      "e","a","s","e"," ","t","r","y"," ","a","g","a","i","n",".">>

\* Line 109: the f-string's constant part.
ErrPrefix ==
    <<"E","r","r","o","r"," ","d","u","r","i","n","g"," ","a","n","a","l","y",
      "s","i","s",":"," ">>

\* str(e) of the FileNotFoundError of open(temp_path) and os.remove(temp_path).
TxtNotFound ==
    <<"[","E","r","r","n","o"," ","2","]"," ","N","o"," ","s","u","c","h"," ",
      "f","i","l","e"," ","o","r"," ","d","i","r","e","c","t","o","r","y",":",
      " ","'","t","e","m","p","_","m","e","d","i","c","a","l","_","i","m","a",
      "g","e",".","p","n","g","'">>

\* str(e) of the AttributeError of None.strip() (line 98).
TxtNoStrip ==
    <<"'","N","o","n","e","T","y","p","e","'"," ","o","b","j","e","c","t"," ",
      "h","a","s"," ","n","o"," ","a","t","t","r","i","b","u","t","e"," ","'",
      "s","t","r","i","p","'">>

\* str(e) of the TypeError of Image.fromarray on an array it has no mode for.
TxtDataType ==
    <<"C","a","n","n","o","t"," ","h","a","n","d","l","e"," ","t","h","i","s",
      " ","d","a","t","a"," ","t","y","p","e">>

\* str(e) of the OSError of a failed img.save.
TxtNoSpace ==
    <<"[","E","r","r","n","o"," ","2","8","]"," ","N","o"," ","s","p","a","c",
      "e"," ","l","e","f","t"," ","o","n"," ","d","e","v","i","c","e">>

\* str(e) of an exception raised by medical_agent.run.
TxtQuota ==
    <<"4","2","9"," ","q","u","o","t","a"," ","e","x","c","e","e","d","e","d">>

\* What medical_agent.run may raise.
ExcTexts == {TxtQuota}

\* The characters str.strip() removes.
Whitespace == {" ", "\t", "\n", "\r"}

RECURSIVE LStrip(_)
LStrip(s) == IF s # <<>> /\ Head(s) \in Whitespace THEN LStrip(Tail(s)) ELSE s

RECURSIVE RStrip(_)
RStrip(s) ==
    IF s # <<>> /\ s[Len(s)] \in Whitespace
    THEN RStrip(SubSeq(s, 1, Len(s) - 1))
    ELSE s

\* str.strip(): leading and trailing whitespace removed, the inside kept.
Strip(s) == RStrip(LStrip(s))

\* Whether sub occurs in s (Python's `sub in s`).
Contains(s, sub) ==
    \E i \in 0..(Len(s) - Len(sub)) : SubSeq(s, i + 1, i + Len(sub)) = sub

\* ------------------------------------------------- the model's responses

\* A text of n characters with whitespace inside it (its second character).
Body(n) == [i \in 1..n |-> IF i = 2 /\ n > 2 THEN " " ELSE "x"]

Pad(n, c) == [i \in 1..n |-> c]

\* Lengths on both sides of the threshold, and short and long ones.
BodyLens == {0, 2, MinLength - 1, MinLength, 2 * MinLength}

\* response.content when it is a str.
Contents ==
    { Pad(l, " ") \o Body(n) \o Pad(t, "\n") :
        l \in 0..MaxPad, t \in 0..MaxPad, n \in BodyLens }

\* A RunResponse: its content is a str or None.
Responses ==
    { [kind |-> "str", content |-> c] : c \in Contents }
      \cup { [kind |-> "none", content |-> <<>>] }

\* The responses tried when invocations interleave: a complete one, a short
\* one, and one without content.
ConcResponses ==
    { [kind |-> "str", content |-> Body(MinLength)],
      [kind |-> "str", content |-> Body(2)],
      [kind |-> "none", content |-> <<>>] }

NoResponse == [kind |-> "unset", content |-> <<>>]

\* ----------------------------------------------------------------- images

\* The handler's argument: None, a numpy array, a PIL image, or another object.
NoneImage == [kind |-> "none", mode |-> "-", px |-> <<>>]

OtherObject == [kind |-> "other", mode |-> "-", px |-> <<>>]

\* numpy arrays: `mode` holds the array's shape and dtype.
Arrays ==
    { [kind |-> "ndarray", mode |-> "HxW:uint8", px |-> <<0>>],
      [kind |-> "ndarray", mode |-> "HxWx3:uint8", px |-> <<255, 0, 0>>],
      [kind |-> "ndarray", mode |-> "HxW:int64", px |-> <<0>>] }

\* Decoded images.
PilImages ==
    { [kind |-> "pil", mode |-> "L", px |-> <<255>>],
      [kind |-> "pil", mode |-> "RGBA", px |-> <<255, 0, 0, 128>>] }

Inputs == {NoneImage, OtherObject} \cup Arrays \cup PilImages

\* The images tried when invocations interleave: none, two that convert to
\* different RGB images, and an array fromarray rejects.
ConcInputs ==
    { NoneImage,
      [kind |-> "ndarray", mode |-> "HxW:uint8", px |-> <<0>>],
      [kind |-> "pil", mode |-> "RGBA", px |-> <<255, 0, 0, 128>>],
      [kind |-> "ndarray", mode |-> "HxW:int64", px |-> <<0>>] }

NoImg == [kind |-> "unset", mode |-> "-", px |-> <<>>]

\* Image.fromarray's table from (shape, dtype) to a mode; "-" when it has none
\* and raises TypeError.
ArrayMode(a) ==
    CASE a.mode = "HxW:uint8" -> "L"
      [] a.mode = "HxWx3:uint8" -> "RGB"
      [] a.mode = "HxWx4:uint8" -> "RGBA"
      [] OTHER -> "-"

\* Line 73: Image.fromarray(image).
FromArray(a) == [kind |-> "pil", mode |-> ArrayMode(a), px |-> a.px]

\* Mutant: the conversion is left out and the image is saved in its own mode.
ConvertNothing(i) == i

\* Line 81: img.convert('RGB').  Grey is copied to the three channels, alpha
\* is dropped.
ConvertRGB(i) ==
    [kind |-> "pil", mode |-> "RGB",
     px |-> CASE i.mode = "L" -> <<i.px[1], i.px[1], i.px[1]>>
              [] i.mode = "RGBA" -> <<i.px[1], i.px[2], i.px[3]>>
              [] OTHER -> i.px]

\* ------------------------------------------------------------------- files

\* The state of the path temp_medical_image.png.  `by` is the request (its
\* number) that last wrote or removed it (0: none of this process).
Absent(n) == [kind |-> "absent", mode |-> "-", px |-> <<>>, by |-> n]

\* The file img.save writes.
Png(i, n) == [kind |-> "png", mode |-> i.mode, px |-> i.px, by |-> n]

\* What a failed img.save leaves behind: a truncated file.
Partial(n) == [kind |-> "partial", mode |-> "-", px |-> <<>>, by |-> n]

\* A file of the fixed name left by an earlier process.
StaleFile == [kind |-> "png", mode |-> "RGB", px |-> <<7, 7, 7>>, by |-> 0]

\* os.path.exists(temp_path).
Exists(f) == f.kind # "absent"

VARIABLES
    file,      \* the path temp_medical_image.png
    pc,        \* pc[p]: where invocation p is in the handler
    req,       \* req[p]: the number of the request p serves (0: none)
    image,     \* image[p]: the handler's argument
    img,       \* img[p]: the local img
    response,  \* response[p]: what medical_agent.run returned
    exc,       \* exc[p]: str(e) of the exception being handled
    result,    \* result[p]: the handler's return value
    sent,      \* sent[p]: what medical_agent.run read at the path
    effects,   \* effects[p]: notifications and file and model operations so far
    started    \* requests dispatched so far

vars ==
    <<file, pc, req, image, img, response, exc, result, sent, effects,
      started>>

InitLocals ==
    /\ pc = [p \in Procs |-> "idle"]
    /\ req = [p \in Procs |-> 0]
    /\ image = [p \in Procs |-> NoImg]
    /\ img = [p \in Procs |-> NoImg]
    /\ response = [p \in Procs |-> NoResponse]
    /\ exc = [p \in Procs |-> <<>>]
    /\ result = [p \in Procs |-> <<>>]
    /\ sent = [p \in Procs |-> Absent(0)]
    /\ effects = [p \in Procs |-> <<>>]
    /\ started = 0

Init == file = Absent(0) /\ InitLocals

InitStale == file \in {Absent(0), StaleFile} /\ InitLocals


\* ------------------------------------------------------ the handler's steps

Outcome(next, i, text, res, eff) ==
    [pc |-> next, img |-> i, exc |-> text, result |-> res, effects |-> eff]

\* Mutant: no None check, so None falls through the isinstance chain.
EntryWithoutNoneCheck(im) ==
    IF im.kind = "ndarray"
    THEN IF ArrayMode(im) = "-"
         THEN Outcome("except", NoImg, TxtDataType, <<>>, <<>>)
         ELSE Outcome("save", ConvertRGB(FromArray(im)), <<>>, <<>>, <<>>)
    ELSE IF im.kind = "pil"
    THEN Outcome("save", ConvertRGB(im), <<>>, <<>>, <<>>)
    ELSE Outcome("returned", NoImg, <<>>, MsgInvalid, <<"Warning">>)

\* Mutant: the isinstance chain ends in `else: img = image`.
EntryAcceptsAny(im) ==
    IF im.kind = "none"
    THEN Outcome("returned", NoImg, <<>>, MsgUpload, <<"Warning">>)
    ELSE IF im.kind = "ndarray"
    THEN IF ArrayMode(im) = "-"
         THEN Outcome("except", NoImg, TxtDataType, <<>>, <<>>)
         ELSE Outcome("save", ConvertRGB(FromArray(im)), <<>>, <<>>, <<>>)
    ELSE Outcome("save", ConvertRGB(im), <<>>, <<>>, <<>>)

\* Lines 62-81: the None check, the isinstance chain, fromarray and convert.
\* Nothing here touches the path, so it is one step.
Entry(im) ==
    IF im.kind = "none"
    THEN Outcome("returned", NoImg, <<>>, MsgUpload, <<"Warning">>)
    ELSE IF im.kind = "ndarray"
    THEN IF ArrayMode(im) = "-"
         THEN Outcome("except", NoImg, TxtDataType, <<>>, <<>>)
         ELSE Outcome("save", ConvertRGB(FromArray(im)), <<>>, <<>>, <<>>)
    ELSE IF im.kind = "pil"
    THEN Outcome("save", ConvertRGB(im), <<>>, <<>>, <<>>)
    ELSE Outcome("returned", NoImg, <<>>, MsgInvalid, <<"Warning">>)

\* The click event (lines 146-150) calls the handler with the uploaded image.
\* `ins` are the images a click may carry.
Click(p, ins) ==
    /\ pc[p] = "idle"
    /\ started < MaxRequests
    /\ \E im \in ins :
         LET o == Entry(im) IN
         /\ image' = [image EXCEPT ![p] = im]
         /\ pc' = [pc EXCEPT ![p] = o.pc]
         /\ img' = [img EXCEPT ![p] = o.img]
         /\ exc' = [exc EXCEPT ![p] = o.exc]
         /\ result' = [result EXCEPT ![p] = o.result]
         /\ effects' = [effects EXCEPT ![p] = o.effects]
    /\ started' = started + 1
    /\ req' = [req EXCEPT ![p] = started + 1]
    /\ UNCHANGED <<file, response, sent>>

\* How img.save may end: written; the path could not be opened for writing;
\* the write failed after the path was truncated.
SaveOutcomes == {"ok", "unwritten", "partial"}

\* Mutant: a file already at the path is kept, not overwritten.
SavedIfAbsent(f, i, n, o) ==
    IF Exists(f) THEN f
    ELSE CASE o = "ok" -> Png(i, n)
           [] o = "partial" -> Partial(n)
           [] OTHER -> f

\* Mutant: the image is never written to the path.
SavedNowhere(f, i, n, o) == f

\* Line 82: the file img.save(temp_path) leaves at the path.  It overwrites.
Saved(f, i, n, o) ==
    CASE o = "ok" -> Png(i, n)
      [] o = "partial" -> Partial(n)
      [] OTHER -> f

\* Line 82 as one step.  A file caught half-written is the "partial" outcome,
\* which stays at the path until an invocation overwrites or removes it.
Save(p) ==
    /\ pc[p] = "save"
    /\ \E o \in SaveOutcomes :
         /\ file' = Saved(file, img[p], req[p], o)
         /\ pc' = [pc EXCEPT ![p] = IF o = "ok" THEN "open" ELSE "except"]
         /\ exc' = [exc EXCEPT ![p] = IF o = "ok" THEN <<>> ELSE TxtNoSpace]
         /\ effects' = [effects EXCEPT ![p] =
                @ \o (IF o = "unwritten" THEN <<>>
                      ELSE IF Exists(file) THEN <<"overwrite">>
                      ELSE <<"save">>)]
    /\ UNCHANGED <<req, image, img, response, result, sent, started>>

\* Lines 84-87: gr.Info, then open(temp_path, 'rb'), which raises
\* FileNotFoundError when the path is gone.
Open(p) ==
    /\ pc[p] = "open"
    /\ IF Exists(file)
       THEN /\ pc' = [pc EXCEPT ![p] = "run"]
            /\ effects' = [effects EXCEPT ![p] = @ \o <<"Info", "open">>]
            /\ exc' = exc
       ELSE /\ pc' = [pc EXCEPT ![p] = "except"]
            /\ effects' = [effects EXCEPT ![p] = @ \o <<"Info">>]
            /\ exc' = [exc EXCEPT ![p] = TxtNotFound]
    /\ UNCHANGED <<file, req, image, img, response, result, sent, started>>

\* Lines 88-91: medical_agent.run is called with the path, and reads what is
\* at the path then.
RunCall(p) ==
    /\ pc[p] = "run"
    /\ sent' = [sent EXCEPT ![p] = file]
    /\ effects' = [effects EXCEPT ![p] = @ \o <<"run">>]
    /\ pc' = [pc EXCEPT ![p] = "await"]
    /\ UNCHANGED <<file, req, image, img, response, exc, result, started>>

\* Mutant: a failed call is issued again.
RetryRun == "run"

\* Line 105: where an exception of medical_agent.run goes.  There is no retry.
AfterRunError == "except"

\* The blocking call ends: it returns a response, one of `rs`, or raises.
RunReturn(p, rs) ==
    /\ pc[p] = "await"
    /\ \/ \E r \in rs :
            /\ response' = [response EXCEPT ![p] = r]
            /\ pc' = [pc EXCEPT ![p] = "cleanup"]
            /\ exc' = exc
       \/ \E t \in ExcTexts :
            /\ exc' = [exc EXCEPT ![p] = t]
            /\ pc' = [pc EXCEPT ![p] = AfterRunError]
            /\ response' = response
    /\ UNCHANGED <<file, req, image, img, result, sent, effects, started>>

\* Line 94: if os.path.exists(temp_path).
CleanupExists(p) ==
    /\ pc[p] = "cleanup"
    /\ pc' = [pc EXCEPT ![p] = IF Exists(file) THEN "remove" ELSE "validate"]
    /\ UNCHANGED <<file, req, image, img, response, exc, result, sent, effects,
                   started>>

\* Line 95: os.remove(temp_path), which raises FileNotFoundError when the path
\* is gone since line 94.
CleanupRemove(p) ==
    /\ pc[p] = "remove"
    /\ IF Exists(file)
       THEN /\ file' = Absent(req[p])
            /\ pc' = [pc EXCEPT ![p] = "validate"]
            /\ effects' = [effects EXCEPT ![p] = @ \o <<"remove">>]
            /\ exc' = exc
       ELSE /\ file' = file
            /\ pc' = [pc EXCEPT ![p] = "except"]
            /\ effects' = effects
            /\ exc' = [exc EXCEPT ![p] = TxtNotFound]
    /\ UNCHANGED <<req, image, img, response, result, sent, started>>

\* Mutant: the length check on the content as it came.
ValidatedUnstripped(content) ==
    IF Len(content) < MinLength
    THEN [result |-> MsgIncomplete, notice |-> "Warning"]
    ELSE [result |-> content, notice |-> "Success"]

\* Lines 98-103: the length check on the stripped content; the content itself
\* is what is returned.
Validated(content) ==
    IF Len(Strip(content)) < MinLength
    THEN [result |-> MsgIncomplete, notice |-> "Warning"]
    ELSE [result |-> content, notice |-> "Success"]

\* Lines 97-103.  response.content.strip() raises AttributeError on None.
Validate(p) ==
    /\ pc[p] = "validate"
    /\ IF response[p].kind = "none"
       THEN /\ pc' = [pc EXCEPT ![p] = "except"]
            /\ exc' = [exc EXCEPT ![p] = TxtNoStrip]
            /\ result' = result
            /\ effects' = effects
       ELSE LET v == Validated(response[p].content) IN
            /\ pc' = [pc EXCEPT ![p] = "returned"]
            /\ exc' = exc
            /\ result' = [result EXCEPT ![p] = v.result]
            /\ effects' = [effects EXCEPT ![p] = @ \o <<v.notice>>]
    /\ UNCHANGED <<file, req, image, img, response, sent, started>>

\* Line 106: if os.path.exists(temp_path), in the except handler.
ExceptExists(p) ==
    /\ pc[p] = "except"
    /\ pc' = [pc EXCEPT ![p] =
                IF Exists(file) THEN "except_remove" ELSE "except_return"]
    /\ UNCHANGED <<file, req, image, img, response, exc, result, sent, effects,
                   started>>

\* Mutant: the except handler does not remove the file.
HandlerKept(f, n) == f

\* Line 107: what os.remove(temp_path) leaves at a path that exists.
HandlerRemoved(f, n) == Absent(n)

\* Line 107: os.remove(temp_path) in the except handler.  Its
\* FileNotFoundError is raised inside the handler, so nothing catches it.
ExceptRemove(p) ==
    /\ pc[p] = "except_remove"
    /\ IF Exists(file)
       THEN /\ file' = HandlerRemoved(file, req[p])
            /\ pc' = [pc EXCEPT ![p] = "except_return"]
            /\ effects' = [effects EXCEPT ![p] = @ \o <<"remove">>]
            /\ exc' = exc
       ELSE /\ file' = file
            /\ pc' = [pc EXCEPT ![p] = "raised"]
            /\ effects' = effects
            /\ exc' = [exc EXCEPT ![p] = TxtNotFound]
    /\ UNCHANGED <<req, image, img, response, result, sent, started>>

\* Mutant: the message without the exception's text.
ErrorGeneric(text) == ErrPrefix

\* Line 109: f"Error during analysis: {str(e)}".
ErrorMessage(text) == ErrPrefix \o text

\* Lines 108-109.  gr.Error(...) is built and dropped: it notifies nobody.
ExceptReturn(p) ==
    /\ pc[p] = "except_return"
    /\ result' = [result EXCEPT ![p] = ErrorMessage(exc[p])]
    /\ pc' = [pc EXCEPT ![p] = "returned"]
    /\ UNCHANGED <<file, req, image, img, response, exc, sent, effects,
                   started>>

\* The invocation is over: its return value, or the exception that left it, has
\* gone to the caller (lines 146-150), and its locals are gone.
Display(p) ==
    /\ pc[p] \in {"returned", "raised"}
    /\ pc' = [pc EXCEPT ![p] = "idle"]
    /\ req' = [req EXCEPT ![p] = 0]
    /\ image' = [image EXCEPT ![p] = NoImg]
    /\ img' = [img EXCEPT ![p] = NoImg]
    /\ response' = [response EXCEPT ![p] = NoResponse]
    /\ exc' = [exc EXCEPT ![p] = <<>>]
    /\ result' = [result EXCEPT ![p] = <<>>]
    /\ sent' = [sent EXCEPT ![p] = Absent(0)]
    /\ effects' = [effects EXCEPT ![p] = <<>>]
    /\ UNCHANGED <<file, started>>

\* Every step of invocation p after its dispatch.
Step(p, rs) ==
    \/ Save(p)
    \/ Open(p)
    \/ RunCall(p)
    \/ RunReturn(p, rs)
    \/ CleanupExists(p)
    \/ CleanupRemove(p)
    \/ Validate(p)
    \/ ExceptExists(p)
    \/ ExceptRemove(p)
    \/ ExceptReturn(p)
    \/ Display(p)

\* No invocation is in progress.
Quiet == \A q \in Procs : pc[q] = "idle"

\* One invocation at a time: a click is dispatched when none is in progress.
Next == \E p \in Procs : (Quiet /\ Click(p, Inputs)) \/ Step(p, Responses)

\* Invocations interleave: a click is dispatched whatever the others do.
NextConc ==
    \E p \in Procs : Click(p, ConcInputs) \/ Step(p, ConcResponses)

Spec == Init /\ [][Next]_vars

SpecStale == InitStale /\ [][Next]_vars

SpecConc == Init /\ [][NextConc]_vars


\* ----------------------------------------------------------------- claims

\* The calls invocation p has made to medical_agent.run.
Calls(p) == Cardinality({k \in DOMAIN effects[p] : effects[p][k] = "run"})

\* Whether invocation p has done file or model operation `op`.
Did(p, op) == \E k \in DOMAIN effects[p] : effects[p][k] = op

\* The handler has returned or raised to its caller.
Over(p) == pc[p] \in {"returned", "raised"}

\* The pixel of the 3-channel RGB rendering of an input, stated on the input:
\* grey in all three channels, colour as it is, alpha dropped.
ExpectedRgb(im) ==
    CASE im.mode \in {"HxW:uint8", "L"} -> <<im.px[1], im.px[1], im.px[1]>>
      [] im.mode \in {"HxWx4:uint8", "RGBA"} -> <<im.px[1], im.px[2], im.px[3]>>
      [] OTHER -> im.px

\* The file invocation p's own request is to have at the path.
OwnFile(p) ==
    [kind |-> "png", mode |-> "RGB", px |-> ExpectedRgb(image[p]),
     by |-> req[p]]

C2_NoImage ==
    \A p \in Procs :
        (Over(p) /\ image[p] = NoneImage) =>
            /\ pc[p] = "returned"
            /\ result[p] = MsgUpload
            /\ Calls(p) = 0
            /\ effects[p] = <<"Warning">>
            /\ file.by # req[p]

\* A second request, with no image, after the first used the file.
C2_Witness ==
    \E p \in Procs :
        /\ pc[p] = "returned"
        /\ image[p] = NoneImage
        /\ req[p] = 2
        /\ file = Absent(1)

\* C3: for a response whose content is a str, a stripped length below 100
\* gives exactly "Error: Analysis seems incomplete. Please try again." and not
\* the content; a stripped length of 100 or more gives the content as it
\* came, not stripped.
C3_LengthCheck ==
    \A p \in Procs :
        (Over(p) /\ response[p].kind = "str") =>
            LET c == response[p].content IN
            /\ pc[p] = "returned"
            /\ Len(Strip(c)) < MinLength =>
                   result[p] = MsgIncomplete /\ result[p] # c
            /\ Len(Strip(c)) >= MinLength => result[p] = c

\* A content of 100 characters or more that strips to 99 is rejected.
C3_Witness ==
    \E p \in Procs :
        /\ pc[p] = "returned"
        /\ response[p].kind = "str"
        /\ Len(response[p].content) >= MinLength
        /\ Len(Strip(response[p].content)) = MinLength - 1
        /\ result[p] = MsgIncomplete

\* C4 as stated: an invocation with a pixel array or a decoded image issues
\* exactly one call to the external model.
C4_ExactlyOneCall ==
    \A p \in Procs :
        (Over(p) /\ image[p].kind \in {"ndarray", "pil"}) => Calls(p) = 1

\* C4 as amended: an invocation never issues more than one call (a failed call
\* or an incomplete response is not retried); it issues exactly one when its
\* input is a pixel array or a decoded image and neither Image.fromarray nor
\* img.save raised, and none otherwise.
C4_AtMostOneCall ==
    \A p \in Procs :
        /\ Calls(p) <= 1
        /\ Over(p) =>
             (Calls(p) = 1 <=>
                 /\ image[p].kind \in {"ndarray", "pil"}
                 /\ exc[p] \notin {TxtDataType, TxtNoSpace})

\* The external call raised, and the invocation returned after that one call.
C4_Witness ==
    \E p \in Procs :
        /\ pc[p] = "returned"
        /\ exc[p] \in ExcTexts
        /\ Calls(p) = 1

\* C5: an input that is neither a pixel array nor a decoded image (nor None)
\* returns "Invalid image format" with no call to the external model and the
\* file not written.
C5_InvalidFormat ==
    \A p \in Procs :
        (Over(p) /\ image[p] = OtherObject) =>
            /\ pc[p] = "returned"
            /\ result[p] = MsgInvalid
            /\ Calls(p) = 0
            /\ ~Did(p, "save") /\ ~Did(p, "overwrite")
            /\ file.by # req[p]

C5_Witness ==
    \E p \in Procs :
        /\ pc[p] = "returned"
        /\ image[p] = OtherObject
        /\ result[p] = MsgInvalid

\* C6: when the external call raises, the handler returns "Error during
\* analysis: " followed by the exception's text, the file written for the
\* request is removed by then, and no response content is returned.
C6_CallRaises ==
    \A p \in Procs :
        (Over(p) /\ exc[p] \in ExcTexts) =>
            /\ pc[p] = "returned"
            /\ result[p] = ErrPrefix \o exc[p]
            /\ Contains(result[p], exc[p])
            /\ response[p] = NoResponse
            /\ Did(p, "save") /\ Did(p, "remove")
            /\ ~Exists(file)

C6_Witness ==
    \E p \in Procs :
        /\ pc[p] = "returned"
        /\ exc[p] = TxtQuota
        /\ sent[p] = OwnFile(p)
        /\ file = Absent(req[p])

\* What the handler is to return for an input, the exception raised on the
\* way (none: <<>>) and the model's response.
ExpectedResult(im, e, r) ==
    CASE im.kind = "none" -> MsgUpload
      [] im.kind = "other" -> MsgInvalid
      [] e # <<>> -> ErrPrefix \o e
      [] r.kind = "str" /\ Len(Strip(r.content)) >= MinLength -> r.content
      [] OTHER -> MsgIncomplete

\* C7: with invocations one after the other, whatever the earlier requests
\* ended in and whatever file was at the path, a request's external call reads
\* the image that request wrote, and its result is decided by its own image,
\* the exception raised on its way and the model's response to it.
C7_OwnImageOwnResult ==
    \A p \in Procs :
        /\ Calls(p) = 1 => sent[p] = OwnFile(p)
        /\ pc[p] = "returned" =>
              result[p] = ExpectedResult(image[p], exc[p], response[p])
        /\ pc[p] # "raised"

\* A second request found a file at the path, overwrote it, and its call read
\* its own image.
C7_Witness ==
    \E p \in Procs :
        /\ pc[p] = "returned"
        /\ req[p] = 2
        /\ Did(p, "overwrite")
        /\ sent[p] = OwnFile(p)
        /\ sent[p].px # StaleFile.px

\* C8: when the external call is issued for a pixel array or a decoded image,
\* of whatever colour mode, the file at the path is the 3-channel RGB
\* rendering of that input.
C8_RgbAtCall ==
    \A p \in Procs :
        pc[p] = "await" =>
            /\ file.kind = "png"
            /\ file.mode = "RGB"
            /\ Len(file.px) = 3
            /\ file.px = ExpectedRgb(image[p])
            /\ sent[p] = file

\* A grey decoded image is at the path as RGB when the call is issued.
C8_Witness ==
    \E p \in Procs :
        /\ pc[p] = "await"
        /\ image[p].mode = "L"
        /\ file.mode = "RGB"
        /\ file.px = <<255, 255, 255>>

\* C9: when invocations interleave on the shared path, a call reads something
\* other than its own request's image, and an open or a remove finds the path
\* gone after its own save, only through another invocation: what was at the
\* path was last written or removed by another request.  Both races are reachable (the
\* witness): a call that read the other invocation's image, and a file removed
\* by the other invocation before it was read.
C9_OnlyTheOtherInterferes ==
    \A p \in Procs :
        /\ (Calls(p) = 1 /\ sent[p] # OwnFile(p)) =>
               sent[p].by \notin {0, req[p]}
        /\ (pc[p] = "except" /\ exc[p] = TxtNotFound) =>
               /\ Did(p, "save") \/ Did(p, "overwrite")
               /\ file.by \notin {0, req[p]}

\* Invocation p's call read the image q wrote, and q's open found the file
\* removed by p.
C9_Witness ==
    \E p \in Procs, q \in Procs :
        /\ p # q
        /\ Calls(p) = 1
        /\ sent[p].kind = "png"
        /\ sent[p].by = req[q]
        /\ sent[p].px # ExpectedRgb(image[p])
        /\ Did(q, "overwrite")
        /\ pc[q] = "except"
        /\ exc[q] = TxtNotFound
        /\ Calls(q) = 0
        /\ file = Absent(req[p])

\* C10: every invocation ends by returning a string and never raises to its
\* caller, also when invocations interleave, and a response that passes the
\* length check is never reported as an error because of the cleanup.
C10_NeverRaises ==
    \A p \in Procs :
        /\ pc[p] # "raised"
        /\ (pc[p] = "returned" /\ response[p].kind = "str"
              /\ Len(Strip(response[p].content)) >= MinLength) =>
                 result[p] = response[p].content

=============================================================================
